---- MODULE Spec2Model ----
(***************************************************************************)
(* The GroupImports lint rule of eslint-experiments.                       *)
(*                                                                         *)
(* Two implementations of the rule live in the repository: the weighted    *)
(* sort (src/unnamed/part_000) and the bucket grouping                     *)
(* (src/plugin/rules/GroupImports/rule.js).  Both are modelled; the        *)
(* variable rule says which one is installed.                              *)
(*                                                                         *)
(* Text is modelled as TLA+ strings, character by character: the template  *)
(* literals of the source are string concatenations, offsets are character *)
(* counts, and the host's parser is a tokenizer over the characters.       *)
(* JavaScript's undefined (an absent default or namespace import) is the   *)
(* empty string: both are falsy, and an identifier is never empty.         *)
(***************************************************************************)
EXTENDS Integers, Sequences, FiniteSets, TLC

VARIABLES
  LINE_BREAK_LENGTH,  \* part_000:59, 2 on win32 and 1 elsewhere
  rule,               \* which implementation is installed: "weighted" | "bucket"
  importNodes,        \* the file's import declarations, in source order
  pc,                 \* "parsed" | "linted" | "thrown"
  pass,               \* number of the lint pass over the file (1, 2, ...)
  importRecords,      \* the records the last Program visit built
  reports,            \* calls of context.report in the last Program visit
  fixRange,           \* the range of the reported fix
  fixText,            \* the replacement text of the reported fix
  appliedText         \* the import block as the last applied fix wrote it

vars == <<LINE_BREAK_LENGTH, rule, importNodes, pc, pass, importRecords,
          reports, fixRange, fixText, appliedText>>

-----------------------------------------------------------------------------
(* Bounds of the model *)

MaxImports == 2

MaxBreaks == 2

MaxPasses == 2

-----------------------------------------------------------------------------
(* Strings *)

Char(s, i) == SubSeq(s, i, i)

\* The characters of identifiers, in code-unit order (JavaScript compares
\* strings by UTF-16 code unit, so every capital precedes every small letter).
Alphabet == "ABCDEFGHIJKLMNOPQRSTUVWXYZabcdefghijklmnopqrstuvwxyz"

Letters == {Char(Alphabet, i) : i \in 1..Len(Alphabet)}

CharCode(c) == CHOOSE i \in 1..Len(Alphabet) : Char(Alphabet, i) = c

RECURSIVE StringLessFrom(_, _, _)
StringLessFrom(a, b, i) ==
  IF i > Len(b) THEN FALSE
  ELSE IF i > Len(a) THEN TRUE
  ELSE IF Char(a, i) = Char(b, i) THEN StringLessFrom(a, b, i + 1)
  ELSE CharCode(Char(a, i)) < CharCode(Char(b, i))

\* a < b on JavaScript strings
StringLess(a, b) == StringLessFrom(a, b, 1)

RECURSIVE Join(_, _)
\* Array.prototype.join
Join(strings, separator) ==
  IF Len(strings) = 0 THEN ""
  ELSE IF Len(strings) = 1 THEN strings[1]
  ELSE strings[1] \o separator \o Join(Tail(strings), separator)

-----------------------------------------------------------------------------
(* configuration.js *)

groups ==
  << << "react", "prop-types", "react-*", "redux", "reselect", "lodash" >>,
     << "sr-*", "tdr-*" >>,
     << "components/**/*" >>,
     << "modules/!(utilities)" >>,
     << "modules/**/selectors" >>,
     << "modules/**/sagas" >>,
     << "modules/utilities" >> >>

-----------------------------------------------------------------------------
(* micromatch.isMatch, for the glob forms the configuration uses: a literal *)
(* segment, a segment ending in * (any run of characters without a slash),  *)
(* the segment * alone, the globstar segment (zero or more segments) and    *)
(* the extglob !(word) (one segment other than word).                       *)

RECURSIVE SplitFrom(_, _, _)
SplitFrom(s, i, from) ==
  IF i > Len(s) THEN << SubSeq(s, from, Len(s)) >>
  ELSE IF Char(s, i) = "/"
    THEN << SubSeq(s, from, i - 1) >> \o SplitFrom(s, i + 1, i + 1)
    ELSE SplitFrom(s, i + 1, from)

Segments(s) == SplitFrom(s, 1, 1)

SegmentMatches(segment, glob) ==
  IF glob = "*" THEN Len(segment) > 0
  ELSE IF Len(glob) > 3 /\ SubSeq(glob, 1, 2) = "!(" /\ Char(glob, Len(glob)) = ")"
    THEN Len(segment) > 0 /\ segment # SubSeq(glob, 3, Len(glob) - 1)
  ELSE IF Len(glob) > 1 /\ Char(glob, Len(glob)) = "*"
    THEN /\ Len(segment) >= Len(glob) - 1
         /\ SubSeq(segment, 1, Len(glob) - 1) = SubSeq(glob, 1, Len(glob) - 1)
  ELSE segment = glob

RECURSIVE SegmentsMatch(_, _, _, _)
SegmentsMatch(segments, i, globs, j) ==
  IF j > Len(globs) THEN i > Len(segments)
  ELSE IF globs[j] = "**"
    THEN \/ SegmentsMatch(segments, i, globs, j + 1)
         \/ i <= Len(segments) /\ SegmentsMatch(segments, i + 1, globs, j)
  ELSE /\ i <= Len(segments)
       /\ SegmentMatches(segments[i], globs[j])
       /\ SegmentsMatch(segments, i + 1, globs, j + 1)

\* the patterns of the configuration
Patterns ==
  UNION { { groups[i][j] : j \in 1..Len(groups[i]) } : i \in 1..Len(groups) }

\* micromatch parses a glob once and keeps the result
compiledPatterns == [pattern \in Patterns |-> Segments(pattern)]

isMatch(path, pattern) ==
  SegmentsMatch(Segments(path), 1, compiledPatterns[pattern], 1)

-----------------------------------------------------------------------------
(* Specifiers and records *)

DefaultSpecifier(local) ==
  [type |-> "ImportDefaultSpecifier", imported |-> "", local |-> local]

NamespaceSpecifier(local) ==
  [type |-> "ImportNamespaceSpecifier", imported |-> "", local |-> local]

SingleSpecifier(imported, local) ==
  [type |-> "ImportSpecifier", imported |-> imported, local |-> local]

isDefaultImportSpecifier(specifier) == specifier.type = "ImportDefaultSpecifier"

isNamespaceImportSpecifier(specifier) == specifier.type = "ImportNamespaceSpecifier"

isSingleImportSpecifier(specifier) == specifier.type = "ImportSpecifier"

getImportSpecifierName(specifier) == specifier.local

\* found.map(getImportSpecifierName).pop() of the filtered specifiers: the last name,
\* undefined when there is none
LastName(found) ==
  IF Len(found) = 0 THEN "" ELSE getImportSpecifierName(found[Len(found)])

getSingleImportAsCodeString(singleImport) ==
  IF singleImport.name = singleImport.alias
    THEN singleImport.name
    ELSE singleImport.name \o " as " \o singleImport.alias

SingleImportStrings(singleImports) ==
  [i \in 1..Len(singleImports) |-> getSingleImportAsCodeString(singleImports[i])]

getDefaultImportRecordAsCodeString(importRecord) ==
  "import " \o importRecord.defaultImport \o " from '" \o importRecord.path \o "';"

getDefaultAndSingleImportRecordAsCodeString(importRecord) ==
  "import " \o importRecord.defaultImport \o ", { "
    \o Join(SingleImportStrings(importRecord.singleImports), ",")
    \o " } from '" \o importRecord.path \o "';"

getDefaultAndNamespaceImportRecordAsCodeString(importRecord) ==
  "import " \o importRecord.defaultImport \o ", * as "
    \o importRecord.namespaceImport \o " from '" \o importRecord.path \o "';"

getNamespaceImportRecordAsCodeString(importRecord) ==
  "import * as " \o importRecord.namespaceImport
    \o " from '" \o importRecord.path \o "';"

getSingleImportRecordAsCodeString(importRecord) ==
  "import { "
    \o Join(SingleImportStrings(importRecord.singleImports), ", ")
    \o " } from '" \o importRecord.path \o "';"

getImportRecordAsCodeString(importRecord) ==
  LET defaultImport == importRecord.defaultImport # ""
      namespaceImport == importRecord.namespaceImport # ""
      hasSingleImports == Len(importRecord.singleImports) > 0
  IN  IF defaultImport /\ ~namespaceImport /\ ~hasSingleImports
        THEN getDefaultImportRecordAsCodeString(importRecord)
      ELSE IF defaultImport /\ namespaceImport
        THEN getDefaultAndNamespaceImportRecordAsCodeString(importRecord)
      ELSE IF defaultImport /\ hasSingleImports
        THEN getDefaultAndSingleImportRecordAsCodeString(importRecord)
      ELSE IF namespaceImport
        THEN getNamespaceImportRecordAsCodeString(importRecord)
      ELSE IF hasSingleImports
        THEN getSingleImportRecordAsCodeString(importRecord)
      ELSE ""

-----------------------------------------------------------------------------
(* Weights *)

\* What getImportWeight yields when it throws: singleImports[0].alias with an
\* empty singleImports is a TypeError.
TypeError == [group |-> -1, pattern |-> -1, type |-> -1, name |-> "TypeError"]

RECURSIVE ScanPatterns(_, _, _, _, _, _)
\* The loops of getImportWeight, from group i and pattern j on.
ScanPatterns(defaultImport, namespaceImport, singleImports, path, i, j) ==
  IF i > Len(groups)
    THEN [group |-> 0, pattern |-> 0, type |-> 0, name |-> ""]
  ELSE IF j > Len(groups[i])
    THEN ScanPatterns(defaultImport, namespaceImport, singleImports, path, i + 1, 1)
  ELSE IF isMatch(path, groups[i][j])
    THEN LET typeWeight == IF defaultImport # "" THEN 0
                           ELSE IF namespaceImport # "" THEN 1
                           ELSE 2
         IN  IF defaultImport # "" THEN
               [group |-> i - 1, pattern |-> j - 1, type |-> typeWeight,
                name |-> defaultImport]
             ELSE IF namespaceImport # "" THEN
               [group |-> i - 1, pattern |-> j - 1, type |-> typeWeight,
                name |-> namespaceImport]
             ELSE IF Len(singleImports) = 0 THEN TypeError
             ELSE
               [group |-> i - 1, pattern |-> j - 1, type |-> typeWeight,
                name |-> singleImports[1].alias]
  ELSE ScanPatterns(defaultImport, namespaceImport, singleImports, path, i, j + 1)

\* getImportWeight without its early return: the last matching pattern wins
getImportWeightOfLastMatch(defaultImport, namespaceImport, singleImports, path) ==
  LET matching ==
        UNION { { << i, j >> :
                    j \in { k \in 1..Len(groups[i]) : isMatch(path, groups[i][k]) } } :
                i \in 1..Len(groups) }
      last == CHOOSE m \in matching :
                \A o \in matching : o[1] < m[1] \/ (o[1] = m[1] /\ o[2] <= m[2])
  IN  IF matching = {}
        THEN [group |-> 0, pattern |-> 0, type |-> 0, name |-> ""]
      ELSE IF defaultImport # "" THEN
        [group |-> last[1] - 1, pattern |-> last[2] - 1, type |-> 0,
         name |-> defaultImport]
      ELSE IF namespaceImport # "" THEN
        [group |-> last[1] - 1, pattern |-> last[2] - 1, type |-> 1,
         name |-> namespaceImport]
      ELSE IF Len(singleImports) = 0 THEN TypeError
      ELSE
        [group |-> last[1] - 1, pattern |-> last[2] - 1, type |-> 2,
         name |-> singleImports[1].alias]

getImportWeight(defaultImport, namespaceImport, singleImports, path) ==
  ScanPatterns(defaultImport, namespaceImport, singleImports, path, 1, 1)

getNumericImportWeight(weight) ==
  1000000 * weight.group + 1000 * weight.pattern + weight.type

SingleImportsOf(specifiers) ==
  LET found == SelectSeq(specifiers, isSingleImportSpecifier)
  IN  [i \in 1..Len(found) |->
        [name |-> found[i].imported, alias |-> found[i].local]]

\* createImportRecord of part_000
createImportRecord(importNode) ==
  LET defaultImport == LastName(SelectSeq(importNode.specifiers, isDefaultImportSpecifier))
      namespaceImport == LastName(SelectSeq(importNode.specifiers, isNamespaceImportSpecifier))
      singleImports == SingleImportsOf(importNode.specifiers)
      path == importNode.source
  IN  [defaultImport |-> defaultImport,
       namespaceImport |-> namespaceImport,
       singleImports |-> singleImports,
       path |-> path,
       weight |-> getImportWeight(defaultImport, namespaceImport, singleImports, path),
       node |-> importNode]

RECURSIVE createImportRecords(_)
\* importNodes.map(createImportRecord)
createImportRecords(nodes) ==
  IF Len(nodes) = 0 THEN <<>>
  ELSE << createImportRecord(nodes[1]) >> \o createImportRecords(Tail(nodes))

areImportWeightsSequential(weightA, weightB) ==
  LET numericWeightA == getNumericImportWeight(weightA)
      numericWeightB == getNumericImportWeight(weightB)
  IN  IF numericWeightA < numericWeightB THEN TRUE
      ELSE IF numericWeightA = numericWeightB
        THEN StringLess(weightA.name, weightB.name)
      ELSE FALSE

areImportWeightsEqual(weightA, weightB) ==
  /\ weightA.group = weightB.group
  /\ weightA.pattern = weightB.pattern
  /\ weightA.type = weightB.type
  /\ weightA.name = weightB.name

\* areImportRecordsCorrectlyGrouped asking for one line break between groups
areImportRecordsOneBreakApart(records) ==
  \A i \in 1..(Len(records) - 1) :
    LET currentImportRecord == records[i]
        nextImportRecord == records[i + 1]
    IN  /\ areImportWeightsSequential(currentImportRecord.weight,
                                      nextImportRecord.weight)
        /\ ~ ( /\ currentImportRecord.weight.group < nextImportRecord.weight.group
               /\ nextImportRecord.node.start - currentImportRecord.node.end
                    < LINE_BREAK_LENGTH )

areImportRecordsCorrectlyGrouped(records) ==
  \A i \in 1..(Len(records) - 1) :
    LET currentImportRecord == records[i]
        nextImportRecord == records[i + 1]
    IN  /\ areImportWeightsSequential(currentImportRecord.weight,
                                      nextImportRecord.weight)
        /\ ~ ( /\ currentImportRecord.weight.group < nextImportRecord.weight.group
               /\ nextImportRecord.node.start - currentImportRecord.node.end
                    < LINE_BREAK_LENGTH * 2 )

\* the comparator without the comparison of names
compareNumericImportWeights(recordA, recordB) ==
  LET numericWeightA == getNumericImportWeight(recordA.weight)
      numericWeightB == getNumericImportWeight(recordB.weight)
  IN  IF numericWeightA = numericWeightB THEN 0
      ELSE IF numericWeightA < numericWeightB THEN -1
      ELSE 1

\* The comparator getFixedImportRecords hands to Array.prototype.sort
compareImportRecords(recordA, recordB) ==
  IF areImportWeightsEqual(recordA.weight, recordB.weight) THEN 0
  ELSE IF areImportWeightsSequential(recordA.weight, recordB.weight) THEN -1
  ELSE 1

RECURSIVE InsertSorted(_, _)
\* record goes before the first element it must precede
InsertSorted(sorted, record) ==
  IF Len(sorted) = 0 THEN << record >>
  ELSE IF compareImportRecords(record, sorted[1]) < 0
    THEN << record >> \o sorted
    ELSE << sorted[1] >> \o InsertSorted(Tail(sorted), record)

RECURSIVE SortFrom(_, _, _)
SortFrom(records, i, sorted) ==
  IF i > Len(records) THEN sorted
  ELSE SortFrom(records, i + 1, InsertSorted(sorted, records[i]))

\* Array.prototype.sort with the comparator above: a stable sort
sortImportRecords(records) == SortFrom(records, 1, <<>>)

getFixedImportRecords(records) ==
  LET sortedImportRecords == sortImportRecords(records)
      Piece(index) ==
        LET importRecord == sortedImportRecords[index]
            codeString == getImportRecordAsCodeString(importRecord)
        IN  IF \/ index = Len(sortedImportRecords)
               \/ sortedImportRecords[index + 1].weight.group
                    = importRecord.weight.group
              THEN codeString
              ELSE codeString \o "\n"
  IN  Join([index \in 1..Len(sortedImportRecords) |-> Piece(index)], "\n")

-----------------------------------------------------------------------------
(* The bucket grouping of rule.js *)

\* createImportRecord of rule.js: no weight, no node
createBucketImportRecord(importNode) ==
  [defaultImport |-> LastName(SelectSeq(importNode.specifiers, isDefaultImportSpecifier)),
   namespaceImport |-> LastName(SelectSeq(importNode.specifiers, isNamespaceImportSpecifier)),
   singleImports |-> SingleImportsOf(importNode.specifiers),
   path |-> importNode.source]

\* Whether the loop over the patterns of group i finds a match
GroupMatches(i, path) == \E j \in 1..Len(groups[i]) : isMatch(path, groups[i][j])

RECURSIVE FirstMatchingGroup(_, _)
\* The loop over the groups, from group i: the first group with a matching
\* pattern, 0 when hasBeenGrouped stays false
FirstMatchingGroup(path, i) ==
  IF i > Len(groups) THEN 0
  ELSE IF GroupMatches(i, path) THEN i
  ELSE FirstMatchingGroup(path, i + 1)

RECURSIVE PushImportRecords(_, _, _)
\* importNodes.forEach, from node n: the record of each node is pushed to
\* the first group with a matching pattern, and to none when there is none
PushImportRecords(nodes, n, groupedImportRecords) ==
  IF n > Len(nodes) THEN groupedImportRecords
  ELSE LET i == FirstMatchingGroup(nodes[n].source, 1)
       IN  PushImportRecords(nodes, n + 1,
             IF i = 0 THEN groupedImportRecords
             ELSE [groupedImportRecords EXCEPT
                     ![i] = Append(@, createBucketImportRecord(nodes[n]))])

\* groupedImportRecords after the forEach of Program; create starts it as
\* one empty list per group
groupImportRecords(nodes) ==
  PushImportRecords(nodes, 1, [i \in 1..Len(groups) |-> <<>>])

RECURSIVE createBucketImportRecords(_)
\* the records of all the nodes, as Program builds them one by one
createBucketImportRecords(nodes) ==
  IF Len(nodes) = 0 THEN <<>>
  ELSE << createBucketImportRecord(nodes[1]) >> \o createBucketImportRecords(Tail(nodes))

\* The text the fix of rule.js hands to replaceTextRange
getGroupedImportRecordsText(groupedImportRecords) ==
  Join([i \in 1..Len(groupedImportRecords) |->
         Join([n \in 1..Len(groupedImportRecords[i]) |->
                getImportRecordAsCodeString(groupedImportRecords[i][n])], "\n")],
       "\n\n")

-----------------------------------------------------------------------------
(* The host: the parser that turns text into import declaration nodes.      *)
(* Tokens are words, quoted strings and single punctuation characters;      *)
(* blanks and line breaks separate them.  Offsets count characters from 0;  *)
(* a node starts at its import keyword and ends after its semicolon.        *)

RECURSIVE RunEnd(_, _)
\* the last position of the run of letters that starts at i
RunEnd(s, i) ==
  IF i < Len(s) /\ Char(s, i + 1) \in Letters THEN RunEnd(s, i + 1) ELSE i

RECURSIVE QuoteEnd(_, _)
\* the position of the first quote at or after i
QuoteEnd(s, i) ==
  IF i >= Len(s) \/ Char(s, i) = "'" THEN i ELSE QuoteEnd(s, i + 1)

RECURSIVE Tokenize(_, _)
Tokenize(s, i) ==
  IF i > Len(s) THEN <<>>
  ELSE LET c == Char(s, i) IN
    IF c \in {" ", "\n"} THEN Tokenize(s, i + 1)
    ELSE IF c = "'" THEN
      LET j == QuoteEnd(s, i + 1)
      IN  << [kind |-> "string", text |-> SubSeq(s, i + 1, j - 1),
              start |-> i - 1, end |-> j] >> \o Tokenize(s, j + 1)
    ELSE IF c \in Letters THEN
      LET j == RunEnd(s, i)
      IN  << [kind |-> "word", text |-> SubSeq(s, i, j),
              start |-> i - 1, end |-> j] >> \o Tokenize(s, j + 1)
    ELSE << [kind |-> "punctuation", text |-> c,
             start |-> i - 1, end |-> i] >> \o Tokenize(s, i + 1)

RECURSIVE ParseNamedImports(_, _)
\* the specifiers between braces, from token k; next is the token after "}"
ParseNamedImports(tokens, k) ==
  IF k > Len(tokens) \/ tokens[k].text = "}" THEN [specifiers |-> <<>>, next |-> k + 1]
  ELSE IF tokens[k].text = "," THEN ParseNamedImports(tokens, k + 1)
  ELSE IF k + 2 <= Len(tokens) /\ tokens[k + 1].kind = "word" /\ tokens[k + 1].text = "as"
    THEN LET rest == ParseNamedImports(tokens, k + 3)
         IN  [specifiers |->
                << SingleSpecifier(tokens[k].text, tokens[k + 2].text) >>
                  \o rest.specifiers,
              next |-> rest.next]
  ELSE LET rest == ParseNamedImports(tokens, k + 1)
       IN  [specifiers |->
              << SingleSpecifier(tokens[k].text, tokens[k].text) >> \o rest.specifiers,
            next |-> rest.next]

\* the import clause from token k; next is the token "from", or the module
\* string of an import without a clause
ParseImportClause(tokens, k) ==
  LET t == tokens[k] IN
    IF t.kind = "string" THEN [specifiers |-> <<>>, next |-> k]
    ELSE IF t.text = "*" THEN
      [specifiers |-> << NamespaceSpecifier(tokens[k + 2].text) >>, next |-> k + 3]
    ELSE IF t.text = "{" THEN ParseNamedImports(tokens, k + 1)
    ELSE IF tokens[k + 1].text # "," THEN
      [specifiers |-> << DefaultSpecifier(t.text) >>, next |-> k + 1]
    ELSE IF tokens[k + 2].text = "*" THEN
      [specifiers |-> << DefaultSpecifier(t.text), NamespaceSpecifier(tokens[k + 4].text) >>,
       next |-> k + 5]
    ELSE LET named == ParseNamedImports(tokens, k + 3)
         IN  [specifiers |-> << DefaultSpecifier(t.text) >> \o named.specifiers,
              next |-> named.next]

RECURSIVE ParseImports(_, _, _)
\* the import declarations from token k on; offsets are shifted by base
ParseImports(tokens, k, base) ==
  IF k > Len(tokens) THEN <<>>
  ELSE IF ~(tokens[k].kind = "word" /\ tokens[k].text = "import")
    THEN ParseImports(tokens, k + 1, base)
  ELSE
    LET clause == ParseImportClause(tokens, k + 1)
        source == IF tokens[clause.next].kind = "string"
                    THEN clause.next ELSE clause.next + 1
    IN  << [type |-> "ImportDeclaration",
            start |-> base + tokens[k].start,
            end |-> base + tokens[source + 1].end,
            specifiers |-> clause.specifiers,
            source |-> tokens[source].text] >>
          \o ParseImports(tokens, source + 2, base)

\* programNode.body.filter(isImportNode) of the parsed text
parseImportNodes(text, base) == ParseImports(Tokenize(text, 1), 1, base)

-----------------------------------------------------------------------------
(* The files the model lints *)

\* two named imports, the first under an alias
NamedImports ==
  << SingleSpecifier("x", "b"), SingleSpecifier("c", "c") >>

\* the specifier lists the grammar allows: none, default, namespace,
\* default and namespace, named, default and named
SpecifierLists ==
  { <<>>,
    << DefaultSpecifier("B") >>,
    << NamespaceSpecifier("A") >>,
    << DefaultSpecifier("B"), NamespaceSpecifier("n") >>,
    NamedImports,
    << DefaultSpecifier("a"), SingleSpecifier("c", "c"), SingleSpecifier("x", "y") >> }

\* react: the first pattern of the first group matches it; fs: no pattern
\* does; redux: the fourth pattern of the first group; modules/selectors:
\* the pattern of the fourth group and that of the fifth both match it
Declarations ==
  [specifiers : SpecifierLists, source : {"react"}]
    \cup [specifiers : { <<>>, << DefaultSpecifier("B") >>, NamedImports },
          source : {"fs"}]
    \cup [specifiers : { << DefaultSpecifier("B") >> }, source : {"redux"}]
    \cup [specifiers : { << DefaultSpecifier("B") >>, NamedImports },
          source : {"modules/selectors"}]

\* the declaration as the file's author wrote it
getDeclarationText(declaration) ==
  IF Len(declaration.specifiers) = 0
    THEN "import '" \o declaration.source \o "';"
    ELSE getImportRecordAsCodeString(createBucketImportRecord(declaration))

RECURSIVE Layout(_, _, _, _, _)
\* the nodes of the declarations from i on, the first starting at offset
\* start, breaks[i] line breaks between declaration i and the next
Layout(declarations, breaks, lineBreakLength, i, start) ==
  IF i > Len(declarations) THEN <<>>
  ELSE LET end == start + Len(getDeclarationText(declarations[i]))
       IN  << [type |-> "ImportDeclaration", start |-> start, end |-> end,
               specifiers |-> declarations[i].specifiers,
               source |-> declarations[i].source] >>
             \o (IF i = Len(declarations) THEN <<>>
                 ELSE Layout(declarations, breaks, lineBreakLength, i + 1,
                             end + breaks[i] * lineBreakLength))

Files(lineBreakLength) ==
  UNION { { Layout(declarations, breaks, lineBreakLength, 1, 0) :
              declarations \in [1..n -> Declarations],
              breaks \in [1..(n - 1) -> 1..MaxBreaks] } :
          n \in 0..MaxImports }

-----------------------------------------------------------------------------
(* The lint passes *)

\* A file is parsed on one platform, one of the rules installed.
InitWith(rules) ==
  /\ LINE_BREAK_LENGTH \in {1, 2}
  /\ rule \in rules
  /\ importNodes \in Files(LINE_BREAK_LENGTH)
  /\ pc = "parsed"
  /\ pass = 1
  /\ importRecords = <<>>
  /\ reports = 0
  /\ fixRange = <<0, 0>>
  /\ fixText = ""
  /\ appliedText = ""

Init == InitWith({"weighted", "bucket"})

\* importNodes.map(createImportRecord) throws when one call throws
CreationThrows(records) ==
  \E i \in 1..Len(records) : records[i].weight = TypeError

lintingErrorRange(nodes) == << nodes[1].start, nodes[Len(nodes)].end >>

\* create / Program of part_000
ProgramWeighted ==
  /\ rule = "weighted"
  /\ pc = "parsed"
  /\ LET records == createImportRecords(importNodes) IN
       IF Len(importNodes) = 0 THEN
         /\ pc' = "linted"
         /\ importRecords' = <<>>
         /\ reports' = 0
         /\ UNCHANGED <<fixRange, fixText>>
       ELSE IF CreationThrows(records) THEN
         /\ pc' = "thrown"
         /\ importRecords' = <<>>
         /\ reports' = 0
         /\ UNCHANGED <<fixRange, fixText>>
       ELSE
         /\ pc' = "linted"
         /\ importRecords' = records
         /\ IF ~areImportRecordsCorrectlyGrouped(records) THEN
              /\ reports' = 1
              /\ fixRange' = lintingErrorRange(importNodes)
              /\ fixText' = getFixedImportRecords(records)
            ELSE
              /\ reports' = 0
              /\ UNCHANGED <<fixRange, fixText>>
  /\ UNCHANGED <<LINE_BREAK_LENGTH, rule, importNodes, pass, appliedText>>

\* create / Program of rule.js
ProgramBucket ==
  /\ rule = "bucket"
  /\ pc = "parsed"
  /\ pc' = "linted"
  /\ IF Len(importNodes) = 0 THEN
       /\ importRecords' = <<>>
       /\ reports' = 0
       /\ UNCHANGED <<fixRange, fixText>>
     ELSE
       /\ importRecords' = createBucketImportRecords(importNodes)
       /\ reports' = 1
       /\ fixRange' = lintingErrorRange(importNodes)
       /\ fixText' = getGroupedImportRecordsText(groupImportRecords(importNodes))
  /\ UNCHANGED <<LINE_BREAK_LENGTH, rule, importNodes, pass, appliedText>>

\* The host applies the reported fix and parses the file again.
ApplyFix ==
  /\ pc = "linted"
  /\ reports = 1
  /\ pass < MaxPasses
  /\ appliedText' = fixText
  /\ importNodes' = parseImportNodes(fixText, fixRange[1])
  /\ pass' = pass + 1
  /\ pc' = "parsed"
  /\ reports' = 0
  /\ UNCHANGED <<LINE_BREAK_LENGTH, rule, importRecords, fixRange, fixText>>

Next == ProgramWeighted \/ ProgramBucket \/ ApplyFix

Spec == Init /\ [][Next]_vars

\* The weighted sort alone
InitWeighted == InitWith({"weighted"})

NextWeighted == ProgramWeighted \/ ApplyFix

SpecWeighted == InitWeighted /\ [][NextWeighted]_vars

-----------------------------------------------------------------------------
(* Claims *)

\* the state a visit of the weighted rule's Program handler leaves
WeightedLinted == rule = "weighted" /\ pc = "linted"

AdjacentPairs == 1..(Len(importRecords) - 1)

Gap(i) == importRecords[i + 1].node.start - importRecords[i].node.end

PairAccepted(i) ==
  areImportRecordsCorrectlyGrouped(<< importRecords[i], importRecords[i + 1] >>)

\* C1: the records re-built from the text of a fix are correctly grouped, so
\* the lint pass over the fixed block reports nothing.
C1_FixedBlockIsCorrectlyGrouped ==
  (WeightedLinted /\ pass >= 2) => areImportRecordsCorrectlyGrouped(importRecords)

\* C2: regenerating the records re-built from the text of a fix gives that
\* text again.
C2_FixedBlockIsFixedPoint ==
  (WeightedLinted /\ pass >= 2) => getFixedImportRecords(importRecords) = appliedText

Orderings(n) ==
  { p \in [1..n -> 1..n] : \A i, j \in 1..n : p[i] = p[j] => i = j }

Permuted(records, p) == [i \in 1..Len(records) |-> records[p[i]]]

\* C3 as stated: getFixedImportRecords returns the same text for every
\* permutation of the records.
C3_SameTextForEveryPermutation ==
  WeightedLinted =>
    \A p \in Orderings(Len(importRecords)) :
      getFixedImportRecords(Permuted(importRecords, p))
        = getFixedImportRecords(importRecords)

EqualWeightsRenderAlike(records) ==
  \A i, j \in 1..Len(records) :
    areImportWeightsEqual(records[i].weight, records[j].weight)
      => getImportRecordAsCodeString(records[i]) = getImportRecordAsCodeString(records[j])

\* C3 as amended: getFixedImportRecords returns the same text for every
\* permutation of the records when records of equal weight render to the
\* same text (records of equal weight keep their input order).
C3_SameTextUnlessEqualWeightsDiffer ==
  (WeightedLinted /\ EqualWeightsRenderAlike(importRecords)) =>
    \A p \in Orderings(Len(importRecords)) :
      getFixedImportRecords(Permuted(importRecords, p))
        = getFixedImportRecords(importRecords)

\* C3 witness: a reported file of two or more records that the sort reorders,
\* no two of equal weight rendering differently.
C3_Witness ==
  /\ WeightedLinted
  /\ reports = 1
  /\ Len(importRecords) >= 2
  /\ EqualWeightsRenderAlike(importRecords)
  /\ sortImportRecords(importRecords) # importRecords
  /\ fixText = getFixedImportRecords(sortImportRecords(importRecords))

Canonical(nodes) ==
  areImportRecordsCorrectlyGrouped(createImportRecords(nodes))

\* C4: a Program visit reports nothing when the file has no imports or its
\* imports are in canonical order and reports once otherwise, the fix
\* replacing the range from the first import's start to the last one's end.
C4_ReportsOnceUnlessCanonical ==
  pc = "linted" =>
    /\ reports = IF Len(importNodes) = 0 \/ Canonical(importNodes) THEN 0 ELSE 1
    /\ reports = 1 =>
         fixRange = << importNodes[1].start, importNodes[Len(importNodes)].end >>

\* C5: a pair with sequential weights and an increasing group is rejected
\* when one line break separates the declarations and accepted when two or
\* more do; a pair with sequential weights in one group is accepted whatever
\* the gap.
C5_GroupingGapRule ==
  WeightedLinted =>
    \A i \in AdjacentPairs :
      LET current == importRecords[i].weight
          next == importRecords[i + 1].weight
      IN  areImportWeightsSequential(current, next) =>
            /\ (current.group < next.group /\ Gap(i) = LINE_BREAK_LENGTH)
                 => ~PairAccepted(i)
            /\ (current.group < next.group /\ Gap(i) >= 2 * LINE_BREAK_LENGTH)
                 => PairAccepted(i)
            /\ current.group = next.group => PairAccepted(i)

\* C5 witness: on win32, a pair with an increasing group one line break
\* apart is rejected and the file reported.
C5_Witness ==
  /\ WeightedLinted
  /\ pass = 1
  /\ LINE_BREAK_LENGTH = 2
  /\ reports = 1
  /\ \E i \in AdjacentPairs :
       /\ areImportWeightsSequential(importRecords[i].weight, importRecords[i + 1].weight)
       /\ importRecords[i].weight.group < importRecords[i + 1].weight.group
       /\ Gap(i) = LINE_BREAK_LENGTH
       /\ ~PairAccepted(i)

Matches(path) ==
  UNION { { << i, j >> : j \in { k \in 1..Len(groups[i]) : isMatch(path, groups[i][k]) } } :
          i \in 1..Len(groups) }

\* C6: the weight of a record whose path some pattern matches carries the
\* indices of a matching pattern, and no pattern at a smaller (group, pattern)
\* matches the path.
C6_FirstMatchWins ==
  WeightedLinted =>
    \A n \in 1..Len(importRecords) :
      LET weight == importRecords[n].weight
          matches == Matches(importRecords[n].path)
      IN  matches # {} =>
            /\ << weight.group + 1, weight.pattern + 1 >> \in matches
            /\ \A m \in matches :
                 \/ weight.group + 1 < m[1]
                 \/ weight.group + 1 = m[1] /\ weight.pattern + 1 <= m[2]

\* C6 witness: a record whose path two patterns match, weighted by the first
C6_Witness ==
  /\ WeightedLinted
  /\ \E n \in 1..Len(importRecords) :
       /\ Cardinality(Matches(importRecords[n].path)) >= 2
       /\ importRecords[n].weight.group = 3
       /\ importRecords[n].weight.pattern = 0

\* C7: a declaration without specifiers never makes the pass throw, and
\* its record renders as the empty string.
C7_NoSpecifiersNeverThrows ==
  (pc # "parsed" /\ \E i \in 1..Len(importNodes) : Len(importNodes[i].specifiers) = 0)
    => /\ pc = "linted"
       /\ \A n \in 1..Len(importRecords) :
            (/\ importRecords[n].defaultImport = ""
             /\ importRecords[n].namespaceImport = ""
             /\ Len(importRecords[n].singleImports) = 0)
              => getImportRecordAsCodeString(importRecords[n]) = ""

\* the form of section 6 for a default import with named imports
DefaultAndNamedForm(importRecord) ==
  "import " \o importRecord.defaultImport \o ", { "
    \o Join(SingleImportStrings(importRecord.singleImports), ", ")
    \o " } from '" \o importRecord.path \o "';"

\* C8: a record with a default import and named imports renders as
\* import X, { a, b as c } from 'P'; the named imports separated by a comma
\* and one space.
C8_DefaultAndNamedForm ==
  pc = "linted" =>
    \A n \in 1..Len(importRecords) :
      (/\ importRecords[n].defaultImport # ""
       /\ importRecords[n].namespaceImport = ""
       /\ Len(importRecords[n].singleImports) > 0)
        => getImportRecordAsCodeString(importRecords[n])
             = DefaultAndNamedForm(importRecords[n])

\* (group, pattern, kind, name) of a is strictly greater than that of b
WeightGreater(a, b) ==
  \/ a.group > b.group
  \/ a.group = b.group /\ a.pattern > b.pattern
  \/ a.group = b.group /\ a.pattern = b.pattern /\ a.type > b.type
  \/ /\ a.group = b.group /\ a.pattern = b.pattern /\ a.type = b.type
     /\ StringLess(b.name, a.name)

\* C9: a pair is rejected on ordering grounds only when the weight of its
\* first record is strictly greater than that of its second: a pair the gap
\* rule does not reject, the first weight not greater, is accepted.
C9_EqualWeightsAccepted ==
  WeightedLinted =>
    \A i \in AdjacentPairs :
      LET current == importRecords[i].weight
          next == importRecords[i + 1].weight
      IN  (/\ ~WeightGreater(current, next)
           /\ ~(current.group < next.group /\ Gap(i) < 2 * LINE_BREAK_LENGTH))
            => PairAccepted(i)

Count(nodes, path) == Cardinality({ i \in 1..Len(nodes) : nodes[i].source = path })

\* C10: the text of a fix holds one import statement per declaration of the
\* replaced range, with the same path.
C10_FixConservesImports ==
  (pc = "linted" /\ reports = 1) =>
    LET statements == parseImportNodes(fixText, 0)
    IN  /\ Len(statements) = Len(importNodes)
        /\ \A i \in 1..Len(importNodes) :
             Count(statements, importNodes[i].source)
               = Count(importNodes, importNodes[i].source)

\* C11: in the records re-built from the text of a fix, two adjacent
\* statements of different groups are at least LINE_BREAK_LENGTH * 2
\* characters apart, the gap areImportRecordsCorrectlyGrouped requires, for
\* each value of LINE_BREAK_LENGTH; the validator rejects no such pair for
\* its spacing.
C11_FixedGroupSeparatorIsEnough ==
  (WeightedLinted /\ pass >= 2) =>
    \A i \in AdjacentPairs :
      importRecords[i].weight.group # importRecords[i + 1].weight.group =>
        Gap(i) >= LINE_BREAK_LENGTH * 2

====
